---- MODULE Spec2Model ----
(***************************************************************************)
(* Model of stai (src/stai/__init__.py): the transcribe and download_model *)
(* commands, the manifest parser _get_whisper_models, the two download     *)
(* helpers and the transcript extraction loop.                             *)
(*                                                                         *)
(* Python strings are sequences of one-character strings, so that          *)
(* startswith, find, slicing, strip and split are computed character by    *)
(* character as the interpreter computes them.                             *)
(***************************************************************************)
EXTENDS Integers, Sequences, FiniteSets, TLC

(* ---------------------------- bounds ----------------------------------- *)

\* Largest number of lines the inference engine prints on stdout.
MaxLines == 2

(* ----------------------- Python string primitives ---------------------- *)

Range(s) == {s[i] : i \in 1..Len(s)}

Min2(a, b) == IF a < b THEN a ELSE b

Max2(a, b) == IF a > b THEN a ELSE b

\* str.isspace() for the characters that occur in the inputs
Whitespace == {" ", "\t", "\n", "\r"}

\* s[i:].startswith(sub), i counted from 0 as in Python
StartsWithAt(s, sub, i) ==
    /\ i + Len(sub) <= Len(s)
    /\ SubSeq(s, i + 1, i + Len(sub)) = sub

\* s.startswith(prefix)
StartsWith(s, prefix) == StartsWithAt(s, prefix, 0)

RECURSIVE Find(_, _, _)
\* s.find(sub, start): lowest 0-based index >= start, or -1
Find(s, sub, start) ==
    IF start + Len(sub) > Len(s) THEN -1
    ELSE IF StartsWithAt(s, sub, start) THEN start
    ELSE Find(s, sub, start + 1)

\* sub in s
Contains(s, sub) == Find(s, sub, 0) # -1

\* index normalisation of a slice bound: negative counts from the end
SliceIndex(s, i) == IF i < 0 THEN Max2(i + Len(s), 0) ELSE Min2(i, Len(s))

\* s[a:b]
Slice(s, a, b) == SubSeq(s, SliceIndex(s, a) + 1, SliceIndex(s, b))

RECURSIVE LStrip(_)
LStrip(s) ==
    IF s # <<>> /\ Head(s) \in Whitespace THEN LStrip(Tail(s)) ELSE s

RECURSIVE RStrip(_)
RStrip(s) ==
    IF s # <<>> /\ s[Len(s)] \in Whitespace
    THEN RStrip(SubSeq(s, 1, Len(s) - 1)) ELSE s

\* s.strip()
Strip(s) == RStrip(LStrip(s))

RECURSIVE Split(_, _)
\* s.split(sep) for a non-empty separator: always at least one piece
Split(s, sep) ==
    LET i == Find(s, sep, 0) IN
    IF i = -1 THEN <<s>>
    ELSE <<Slice(s, 0, i)>> \o Split(Slice(s, i + Len(sep), Len(s)), sep)

RECURSIVE Join(_, _)
\* sep.join(parts)
Join(sep, parts) ==
    IF parts = <<>> THEN <<>>
    ELSE IF Len(parts) = 1 THEN parts[1]
    ELSE parts[1] \o sep \o Join(sep, Tail(parts))

\* parts[-1]
LastOf(parts) == parts[Len(parts)]

\* an Optional[str] argument
None == [some |-> FALSE, val |-> <<>>]

Some(s) == [some |-> TRUE, val |-> s]

\* truth value of an Optional[str]: None and "" are false
Truthy(x) == x.some /\ x.val # <<>>

(* --------------------------- program constants ------------------------- *)

WHISPER_CPP_PATH == <<".", "/", "w", "h", "i", "s", "p", "e", "r", ".", "c", "p", "p">>

PREFIX_WHISPER_CPP_CLI == WHISPER_CPP_PATH \o <<"/", "b", "u", "i", "l", "d", "/", "b", "i", "n", "/", "w", "h", "i", "s", "p", "e", "r", "-", "c", "l", "i">>

YOUTUBE_WATCH_PREFIX == <<"h", "t", "t", "p", "s", ":", "/", "/", "w", "w", "w", ".", "y", "o", "u", "t", "u", "b", "e", ".", "c", "o", "m", "/", "w", "a", "t", "c", "h", "?", "v", "=">>

YOUTUBE_SHORT_PREFIX == <<"h", "t", "t", "p", "s", ":", "/", "/", "y", "o", "u", "t", "u", ".", "b", "e", "/">>

MODELS_MARKER == <<"m", "o", "d", "e", "l", "s", "=", "\"">>

QUOTE == <<"\"">>

NEWLINE == <<"\n">>

download_script == WHISPER_CPP_PATH \o <<"/", "m", "o", "d", "e", "l", "s", "/", "d", "o", "w", "n", "l", "o", "a", "d", "-", "g", "g", "m", "l", "-", "m", "o", "d", "e", "l", ".", "s", "h">>

coreml_script == WHISPER_CPP_PATH \o <<"/", "m", "o", "d", "e", "l", "s", "/", "g", "e", "n", "e", "r", "a", "t", "e", "-", "c", "o", "r", "e", "m", "l", "-", "m", "o", "d", "e", "l", ".", "s", "h">>

TXT == <<".", "t", "x", "t">>

WAV == <<".", "w", "a", "v">>

YT_AUDIO == <<"y", "t", "_", "a", "u", "d", "i", "o">>

URL_AUDIO == <<"u", "r", "l", "_", "a", "u", "d", "i", "o">>

ARROW == <<"-", "-", ">">>

OPEN_BRACKET == <<"[">>

CLOSE_BRACKET == <<"]">>

\* the shell command line of lines 59-64
EngineCommand(model, audio_path) ==
    PREFIX_WHISPER_CPP_CLI \o <<" ", "-", "m", " ">> \o WHISPER_CPP_PATH
        \o <<"/", "m", "o", "d", "e", "l", "s", "/", "g", "g", "m", "l", "-">> \o model \o <<".", "b", "i", "n", " ", "-", "f", " ">> \o audio_path

\* the argv list of line 88
DownloadArgv(model) == <<download_script, model>>

\* the argv list of line 92: one element, script and model in one string
CoremlArgv(model) == <<coreml_script \o <<" ">> \o model>>

(* ------------------------------- inputs -------------------------------- *)

TINY == <<"t", "i", "n", "y">>

BASE == <<"b", "a", "s", "e">>

HUGE == <<"h", "u", "g", "e">>

ModelIds == {TINY, BASE, HUGE}

SAMPLE_WAV == <<"s", "a", "m", "p", "l", "e", ".", "w", "a", "v">>

FilePaths == {None, Some(<<>>), Some(SAMPLE_WAV)}

VideoIds == {<<>>, <<"a", "b">>}

YouTubeUrls ==
    {YOUTUBE_WATCH_PREFIX \o v : v \in VideoIds}
        \cup {YOUTUBE_SHORT_PREFIX \o v : v \in VideoIds}

OtherUrls ==
    { <<"h", "t", "t", "p", "s", ":", "/", "/", "e", "x", "a", "m", "p", "l", "e", ".", "c", "o", "m", "/", "a", ".", "m", "p", "3">>,
      <<"h", "t", "t", "p", ":", "/", "/", "y", "o", "u", "t", "u", ".", "b", "e", "/", "a", "b">>,
      <<"h", "t", "t", "p", "s", ":", "/", "/", "y", "o", "u", "t", "u", "b", "e", ".", "c", "o", "m", "/", "w", "a", "t", "c", "h", "?", "v", "=", "a", "b">>,
      <<"x", " ", "h", "t", "t", "p", "s", ":", "/", "/", "y", "o", "u", "t", "u", ".", "b", "e", "/", "a", "b">> }

Urls == {None, Some(<<>>)} \cup {Some(u) : u \in YouTubeUrls \cup OtherUrls}

ManifestsWithMarker ==
    { <<"#", "!", "/", "b", "i", "n", "/", "s", "h", "\n", "m", "o", "d", "e", "l", "s", "=", "\"", "t", "i", "n", "y", "\n", "b", "a", "s", "e", "\"", "\n">>,
      <<"m", "o", "d", "e", "l", "s", "=", "\"", " ", "t", "i", "n", "y", "\n", "b", "a", "s", "e", "\n", "\"">> }

ManifestsWithoutMarker ==
    { <<>>,
      <<"m", "o", "d", "e", "l", "s", ":", "\n", "t", "i", "n", "y", "\n", "\"">>,
      <<"M", "O", "D", "E", "L", "S", "=", "\"", "t", "i", "n", "y", "\"">> }

Manifests == ManifestsWithMarker \cup ManifestsWithoutMarker

HttpStatuses == {200, 404, 500}

ExitCodes == {0, 1}

EngineLines ==
    { <<>>,
      <<"[", "0", " ", "-", "-", ">", " ", "1", "]", " ", " ", "h", "e", "l", "l", "o", " ", "w", "o", "r", "l", "d">>,
      <<"s", "o", "m", "e", " ", "n", "o", "i", "s", "e">>,
      <<"[", "a", "]", " ", "-", "-", ">", " ", "[", "b", "]", " ", "x", " ", "]", " ", "y", "\r">>,
      <<"[", "i", "n", "f", "o", "]", " ", "l", "o", "a", "d", "i", "n", "g">>,
      <<" ", "[", "0", " ", "-", "-", ">", " ", "1", "]", " ", "z">>,
      <<"[", "0", " ", "-", "-", ">", " ", "1", "]">>,
      <<"[", " ", "-", "-", ">", " ", "o", "p", "e", "n">> }

RECURSIVE SeqsUpTo(_, _)
SeqsUpTo(S, n) ==
    IF n = 0 THEN {<<>>}
    ELSE LET shorter == SeqsUpTo(S, n - 1) IN
         shorter \cup {Append(q, e) : q \in {r \in shorter : Len(r) = n - 1}, e \in S}

\* what the engine may print: up to MaxLines lines separated by newlines
EngineOutputs == SeqsUpTo(EngineLines, MaxLines)

\* executables of the model directory tree; the second layout also holds a
\* file whose name is a script name, a space and a model id
Layout == {download_script, coreml_script}

Layouts == {Layout} \cup {Layout \cup {CoremlArgv(m)[1]} : m \in {TINY}}

(* --------------------------- pure functions ---------------------------- *)

\* _get_whisper_models applied to the text of the manifest
GetWhisperModels(content) ==
    LET start == Find(content, MODELS_MARKER, 0) + 8
        end == Find(content, QUOTE, start)
        models_text == Slice(content, start, end)
    IN  Split(Strip(models_text), NEWLINE)

\* mutant: the url is examined before the file path
DetermineMode_UrlFirst(file_path, url) ==
    IF Truthy(url)
    THEN IF \/ StartsWith(url.val, YOUTUBE_WATCH_PREFIX)
            \/ StartsWith(url.val, YOUTUBE_SHORT_PREFIX)
         THEN "youtube"
         ELSE "url"
    ELSE IF Truthy(file_path) THEN "file"
    ELSE "not determined"

\* the chained conditionals that set _mode
DetermineMode(file_path, url) ==
    IF Truthy(file_path) THEN "file"
    ELSE IF Truthy(url)
         THEN IF \/ StartsWith(url.val, YOUTUBE_WATCH_PREFIX)
                 \/ StartsWith(url.val, YOUTUBE_SHORT_PREFIX)
              THEN "youtube"
              ELSE "url"
    ELSE "not determined"

\* the test of the extraction loop
IsCaptionLine(line) == StartsWith(line, OPEN_BRACKET) /\ Contains(line, ARROW)

\* mutant: the text after the first "]" instead of the last
CaptionText_FirstBracket(line) ==
    LET pieces == Split(line, CLOSE_BRACKET) IN
    Strip(IF Len(pieces) >= 2 THEN pieces[2] ELSE pieces[1])

\* line.split("]")[-1].strip()
CaptionText(line) == Strip(LastOf(Split(line, CLOSE_BRACKET)))

RECURSIVE TranscriptionLines(_)
\* the extraction loop over the lines of stdout
TranscriptionLines(lines) ==
    IF lines = <<>> THEN <<>>
    ELSE (IF IsCaptionLine(Head(lines)) THEN <<CaptionText(Head(lines))>> ELSE <<>>)
            \o TranscriptionLines(Tail(lines))

\* stdout -> text written to the transcript file
Transcription(stdout) ==
    Join(NEWLINE, TranscriptionLines(Split(stdout, NEWLINE)))

(* ------------------------------- state --------------------------------- *)

VARIABLES
    command,        \* the subcommand being run
    model,          \* argument: model id
    file_path,      \* argument: Optional[str]
    url,            \* argument: Optional[str]
    content,        \* text of models/download-ggml-model.sh
    executables,    \* executable files present in the model directory
    pc,             \* position in the command's body
    mode,           \* _mode
    models,         \* result of _get_whisper_models()
    audio_path,     \* audio_path
    printed,        \* the lines the engine printed
    result,         \* subprocess.run result of the engine
    transcription,  \* transcription
    files,          \* files written by this run
    events,         \* external calls made by this run, in order
    echoed,         \* typer.echo calls, in order
    outcome         \* "running", "returned" or the exception that escaped

vars == <<command, model, file_path, url, content, executables, pc, mode, models,
          audio_path, printed, result, transcription, files, events, echoed, outcome>>

inputs == <<command, model, file_path, url, content, executables>>

Event(op, args, status) == [op |-> op, args |-> args, status |-> status]

Echo(msg, arg, err) == [msg |-> msg, arg |-> arg, err |-> err]

BODY == <<"R", "I", "F", "F">>

Init ==
    /\ command \in {"transcribe", "download_model"}
    /\ model \in ModelIds
    /\ content \in Manifests
    /\ IF command = "transcribe"
       THEN /\ file_path \in FilePaths
            /\ url \in Urls
            /\ executables = Layout
            /\ pc = "mode"
       ELSE /\ file_path = None
            /\ url = None
            /\ executables \in Layouts
            /\ pc = "d_validate"
    /\ mode = "not determined"
    /\ models = <<>>
    /\ audio_path = <<>>
    /\ printed = <<>>
    /\ result = [returncode |-> 0, stdout |-> <<>>]
    /\ transcription = <<>>
    /\ files = {}
    /\ events = <<>>
    /\ echoed = <<>>
    /\ outcome = "running"

(* ----------------------------- transcribe ------------------------------ *)

\* mutant: the return after the input error is missing
TranscribeMode_NoReturn ==
    /\ pc = "mode"
    /\ mode' = DetermineMode(file_path, url)
    /\ IF mode' = "not determined"
       THEN echoed' = Append(echoed,
                Echo("Either file_path or youtube_url must be provided.", <<>>, TRUE))
       ELSE UNCHANGED echoed
    /\ pc' = "validate"
    /\ UNCHANGED <<inputs, models, audio_path, printed, result, transcription,
                   files, events, outcome>>

\* lines 35-45
TranscribeMode ==
    /\ pc = "mode"
    /\ mode' = DetermineMode(file_path, url)
    /\ IF mode' = "not determined"
       THEN /\ echoed' = Append(echoed,
                   Echo("Either file_path or youtube_url must be provided.", <<>>, TRUE))
            /\ outcome' = "returned"
            /\ pc' = "done"
       ELSE /\ pc' = "validate"
            /\ UNCHANGED <<echoed, outcome>>
    /\ UNCHANGED <<inputs, models, audio_path, printed, result, transcription,
                   files, events>>

\* mutant: the return after "Model not found" is missing
TranscribeValidate_NoReturn ==
    /\ pc = "validate"
    /\ models' = GetWhisperModels(content)
    /\ IF model \notin Range(models')
       THEN echoed' = Append(echoed,
                Echo("Model not found. Available models:", <<>>, TRUE))
       ELSE UNCHANGED echoed
    /\ pc' = "acquire"
    /\ UNCHANGED <<inputs, mode, audio_path, printed, result, transcription,
                   files, events, outcome>>

\* lines 47-50
TranscribeValidate ==
    /\ pc = "validate"
    /\ models' = GetWhisperModels(content)
    /\ IF model \notin Range(models')
       THEN /\ echoed' = Append(echoed,
                   Echo("Model not found. Available models:", <<>>, TRUE))
            /\ outcome' = "returned"
            /\ pc' = "done"
       ELSE /\ pc' = "acquire"
            /\ UNCHANGED <<echoed, outcome>>
    /\ UNCHANGED <<inputs, mode, audio_path, printed, result, transcription,
                   files, events>>

\* lines 52-53 with _download_file_from_youtube, lines 139-158
AcquireYoutube ==
    /\ pc = "acquire"
    /\ mode = "youtube"
    /\ \E ok \in BOOLEAN :
        /\ events' = Append(events,
               Event("ydl.download", <<url.val, YT_AUDIO>>, IF ok THEN "ok" ELSE "DownloadError"))
        /\ IF ok
           THEN /\ audio_path' = YT_AUDIO \o WAV
                /\ files' = files \cup {[path |-> YT_AUDIO \o WAV, data |-> BODY]}
                /\ pc' = "run"
                /\ UNCHANGED outcome
           ELSE /\ outcome' = "DownloadError"
                /\ pc' = "done"
                /\ UNCHANGED <<audio_path, files>>
    /\ UNCHANGED <<inputs, mode, models, printed, result, transcription, echoed>>

\* mutant: the status code is not examined, nothing is raised
AcquireUrl_IgnoreStatus ==
    /\ pc = "acquire"
    /\ mode = "url"
    /\ \E status_code \in HttpStatuses :
        /\ events' = Append(events,
               Event("requests.get", <<url.val>>, ToString(status_code)))
        /\ files' = IF status_code = 200
                    THEN files \cup {[path |-> URL_AUDIO, data |-> BODY]}
                    ELSE files
    /\ audio_path' = URL_AUDIO
    /\ pc' = "run"
    /\ UNCHANGED <<inputs, mode, models, printed, result, transcription, echoed, outcome>>

\* lines 54-55 with _download_file_from_url, lines 178-190
AcquireUrl ==
    /\ pc = "acquire"
    /\ mode = "url"
    /\ \E status_code \in HttpStatuses :
        /\ events' = Append(events,
               Event("requests.get", <<url.val>>, ToString(status_code)))
        /\ IF status_code = 200
           THEN /\ files' = files \cup {[path |-> URL_AUDIO, data |-> BODY]}
                /\ audio_path' = URL_AUDIO
                /\ pc' = "run"
                /\ UNCHANGED outcome
           ELSE /\ outcome' = "Exception"
                /\ pc' = "done"
                /\ UNCHANGED <<audio_path, files>>
    /\ UNCHANGED <<inputs, mode, models, printed, result, transcription, echoed>>

\* lines 56-57
AcquireFile ==
    /\ pc = "acquire"
    /\ mode \notin {"youtube", "url"}
    /\ audio_path' = file_path.val
    /\ pc' = "run"
    /\ UNCHANGED <<inputs, mode, models, printed, result, transcription, files,
                   events, echoed, outcome>>

\* mutant: the engine is run with check=True, a non-zero exit raises
TranscribeRun_Checked ==
    /\ pc = "run"
    /\ \E returncode \in ExitCodes, lines \in EngineOutputs :
        /\ printed' = lines
        /\ result' = [returncode |-> returncode, stdout |-> Join(NEWLINE, lines)]
        /\ events' = Append(events,
               Event("shell", <<EngineCommand(model, audio_path)>>, ToString(returncode)))
        /\ IF returncode = 0
           THEN pc' = "extract" /\ UNCHANGED outcome
           ELSE pc' = "done" /\ outcome' = "CalledProcessError"
    /\ UNCHANGED <<inputs, mode, models, audio_path, transcription, files, echoed>>

\* lines 59-64: the engine runs to completion, any exit status, any output
TranscribeRun ==
    /\ pc = "run"
    /\ \E returncode \in ExitCodes, lines \in EngineOutputs :
        /\ printed' = lines
        /\ result' = [returncode |-> returncode, stdout |-> Join(NEWLINE, lines)]
        /\ events' = Append(events,
               Event("shell", <<EngineCommand(model, audio_path)>>, ToString(returncode)))
    /\ pc' = "extract"
    /\ UNCHANGED <<inputs, mode, models, audio_path, transcription, files, echoed, outcome>>

\* lines 66-71
TranscribeExtract ==
    /\ pc = "extract"
    /\ transcription' = Transcription(result.stdout)
    /\ pc' = "write"
    /\ UNCHANGED <<inputs, mode, models, audio_path, printed, result, files, events,
                   echoed, outcome>>

\* lines 72-73
TranscribeWrite ==
    /\ pc = "write"
    /\ files' = files \cup {[path |-> audio_path \o TXT, data |-> transcription]}
    /\ events' = Append(events, Event("open.write", <<audio_path \o TXT>>, "ok"))
    /\ pc' = "report"
    /\ UNCHANGED <<inputs, mode, models, audio_path, printed, result, transcription,
                   echoed, outcome>>

\* line 75
TranscribeReport ==
    /\ pc = "report"
    /\ echoed' = Append(echoed, Echo("Transcription saved to", audio_path \o TXT, FALSE))
    /\ outcome' = "returned"
    /\ pc' = "done"
    /\ UNCHANGED <<inputs, mode, models, audio_path, printed, result, transcription,
                   files, events>>

(* ---------------------------- download_model --------------------------- *)

\* lines 81-84
DownloadValidate ==
    /\ pc = "d_validate"
    /\ models' = GetWhisperModels(content)
    /\ IF model \notin Range(models')
       THEN /\ echoed' = Append(echoed,
                   Echo("Model not found. Available models:", <<>>, TRUE))
            /\ outcome' = "returned"
            /\ pc' = "done"
       ELSE /\ pc' = "d_download"
            /\ UNCHANGED <<echoed, outcome>>
    /\ UNCHANGED <<inputs, mode, audio_path, printed, result, transcription,
                   files, events>>

\* lines 86-91 and 97-98: subprocess.run(argv, check=True) of the download script
DownloadScript ==
    /\ pc = "d_download"
    /\ LET argv == DownloadArgv(model) IN
       IF argv[1] \notin executables
       THEN /\ events' = Append(events, Event("exec", argv, "FileNotFoundError"))
            /\ outcome' = "FileNotFoundError"
            /\ pc' = "done"
            /\ UNCHANGED echoed
       ELSE \E returncode \in ExitCodes :
            /\ events' = Append(events, Event("exec", argv, ToString(returncode)))
            /\ IF returncode = 0
               THEN /\ echoed' = Append(echoed,
                           Echo("Successfully downloaded, preparing CoreML model...", model, FALSE))
                    /\ pc' = "d_coreml"
                    /\ UNCHANGED outcome
               ELSE /\ echoed' = Append(echoed,
                           Echo("Command failed with return code", <<ToString(returncode)>>, TRUE))
                    /\ outcome' = "returned"
                    /\ pc' = "done"
    /\ UNCHANGED <<inputs, mode, models, audio_path, printed, result, transcription, files>>

\* lines 92-98: subprocess.run(argv, check=True) of the preparation command
DownloadCoreml ==
    /\ pc = "d_coreml"
    /\ LET argv == CoremlArgv(model) IN
       IF argv[1] \notin executables
       THEN /\ events' = Append(events, Event("exec", argv, "FileNotFoundError"))
            /\ outcome' = "FileNotFoundError"
            /\ UNCHANGED echoed
       ELSE \E returncode \in ExitCodes :
            /\ events' = Append(events, Event("exec", argv, ToString(returncode)))
            /\ outcome' = "returned"
            /\ IF returncode = 0
               THEN echoed' = Append(echoed,
                        Echo("CoreML model preparation completed successfully", <<>>, FALSE))
               ELSE echoed' = Append(echoed,
                        Echo("Command failed with return code", <<ToString(returncode)>>, TRUE))
    /\ pc' = "done"
    /\ UNCHANGED <<inputs, mode, models, audio_path, printed, result, transcription, files>>

Next ==
    \/ TranscribeMode
    \/ TranscribeValidate
    \/ AcquireYoutube
    \/ AcquireUrl
    \/ AcquireFile
    \/ TranscribeRun
    \/ TranscribeExtract
    \/ TranscribeWrite
    \/ TranscribeReport
    \/ DownloadValidate
    \/ DownloadScript
    \/ DownloadCoreml

Spec == Init /\ [][Next]_vars

(* ------------------------- auxiliary definitions ----------------------- *)

\* an argument that was not supplied: None or the empty string
Absent == {None, Some(<<>>)}

AcquisitionOps == {"ydl.download", "requests.get"}

OpsOf(ops) == SelectSeq(events, LAMBDA e : e.op \in ops)

EngineInvoked == OpsOf({"shell"}) # <<>>

SavedEchoes == SelectSeq(echoed, LAMBDA m : m.msg = "Transcription saved to")

ModelNotFound == Echo("Model not found. Available models:", <<>>, TRUE)

\* the catalog has been read and the requested id is / is not in it
Validated == models # <<>>

KnownModel == Validated /\ model \in Range(models)

UnknownModel == Validated /\ model \notin Range(models)

\* the mode the inputs select, read off the shape of the two arguments
SelectedMode ==
    IF file_path.some /\ Len(file_path.val) > 0 THEN "file"
    ELSE IF url \in {Some(u) : u \in YouTubeUrls} THEN "youtube"
    ELSE IF url \in {Some(u) : u \in OtherUrls} THEN "url"
    ELSE "not determined"

\* a caption line, stated position by position
BeginsWithBracket(l) == Len(l) >= 1 /\ l[1] = "["

HasArrow(l) ==
    \E i \in 1..(Len(l) - 2) : l[i] = "-" /\ l[i + 1] = "-" /\ l[i + 2] = ">"

Matching(l) == BeginsWithBracket(l) /\ HasArrow(l)

\* position of the last "]" of l, 0 when l has none
LastBracket(l) ==
    LET at == {i \in 1..Len(l) : l[i] = "]"} IN
    IF at = {} THEN 0 ELSE CHOOSE i \in at : \A j \in at : j <= i

Trimmed(t) ==
    LET solid == {i \in 1..Len(t) : t[i] \notin Whitespace} IN
    IF solid = {} THEN <<>>
    ELSE SubSeq(t, CHOOSE i \in solid : \A j \in solid : i <= j,
                   CHOOSE i \in solid : \A j \in solid : j <= i)

EntryOf(l) == Trimmed(SubSeq(l, LastBracket(l) + 1, Len(l)))

RECURSIVE NewlineSeparated(_)
NewlineSeparated(entries) ==
    IF entries = <<>> THEN <<>>
    ELSE LET front == SubSeq(entries, 1, Len(entries) - 1) IN
         IF front = <<>> THEN entries[Len(entries)]
         ELSE NewlineSeparated(front) \o <<"\n">> \o entries[Len(entries)]

ExpectedTranscript(lines) ==
    LET kept == SelectSeq(lines, Matching) IN
    NewlineSeparated([i \in 1..Len(kept) |-> EntryOf(kept[i])])

\* position of an external call in the order of the transcribe workflow
Rank(op) ==
    CASE op \in AcquisitionOps -> 1
      [] op = "shell" -> 2
      [] op = "open.write" -> 3
      [] OTHER -> 4

(* -------------------------------- claims ------------------------------- *)

\* C1: a transcribe run with both the file path and the URL absent (None or
\* empty), whatever the model id, reports the input error on the error
\* channel and returns: no external call is made (no HTTP request, no
\* YouTube download, no engine) and no file is written.
C1_NoInputNoWork ==
    (command = "transcribe" /\ file_path \in Absent /\ url \in Absent) =>
        /\ events = <<>>
        /\ files = {}
        /\ pc \in {"mode", "done"}
        /\ pc = "done" =>
            /\ outcome = "returned"
            /\ echoed = <<Echo("Either file_path or youtube_url must be provided.", <<>>, TRUE)>>

C1_Witness ==
    /\ command = "transcribe" /\ file_path = Some(<<>>) /\ url = None
    /\ model = TINY /\ content \in ManifestsWithMarker
    /\ pc = "done"

\* C2: when the requested model id is not in the catalog read from the
\* manifest, transcribe and download_model report "Model not found" on the
\* error channel and return, having made no external call and written no file.
C2_UnknownModelNoWork ==
    UnknownModel =>
        /\ pc = "done"
        /\ outcome = "returned"
        /\ events = <<>>
        /\ files = {}
        /\ echoed = <<ModelNotFound>>

C2_Witness ==
    /\ command = "download_model" /\ model = HUGE /\ content \in ManifestsWithMarker
    /\ UnknownModel /\ pc = "done"

\* C3: the mode is the function of (file_path, url) in which a non-empty
\* file path selects file whatever the url, otherwise a url with one of the
\* two YouTube prefixes selects youtube and any other non-empty url selects
\* url; once a run with a known model is past acquisition, exactly the
\* strategy of that mode has been executed (file: no download at all).
C3_ModeSelectsStrategy ==
    (command = "transcribe" /\ pc # "mode") =>
        /\ mode = SelectedMode
        /\ (KnownModel /\ pc # "acquire") =>
            LET acq == OpsOf(AcquisitionOps) IN
            CASE SelectedMode = "file" ->
                    acq = <<>> /\ audio_path = file_path.val
              [] SelectedMode = "youtube" ->
                    Len(acq) = 1 /\ acq[1].op = "ydl.download" /\ acq[1].args[1] = url.val
              [] SelectedMode = "url" ->
                    Len(acq) = 1 /\ acq[1].op = "requests.get" /\ acq[1].args[1] = url.val
              [] OTHER -> FALSE

C3_Witness ==
    /\ command = "transcribe" /\ file_path = Some(SAMPLE_WAV)
    /\ url \in {Some(u) : u \in YouTubeUrls}
    /\ pc = "run" /\ mode = "file" /\ events = <<>>

\* C4: the extracted transcript is, in input order, one entry per engine
\* line that begins with "[" and contains "-->", the entry being the text
\* after the last "]" of the line (the whole line when it has none) with
\* surrounding whitespace trimmed; other lines contribute nothing; entries
\* are separated by single newlines with no trailing newline; the transcript
\* is determined by the engine output alone.
C4_ExtractedTranscript ==
    (EngineInvoked /\ pc # "extract") => transcription = ExpectedTranscript(printed)

C4_Witness ==
    /\ pc = "report"
    /\ Len(printed) = 2
    /\ Matching(printed[1]) /\ Cardinality({i \in 1..Len(printed[1]) : printed[1][i] = "]"}) > 1
    /\ ~Matching(printed[2]) /\ BeginsWithBracket(printed[2])
    /\ transcription # <<>>

\* C5: listing the models from a manifest without the models=" marker fails
\* with a ManifestFormatError: no list of identifiers is returned, and no
\* workflow goes on to validate a model id against such a manifest.
C5_ManifestFormatError ==
    content \in ManifestsWithoutMarker =>
        /\ models = <<>>
        /\ pc \in {"mode", "validate", "d_validate"} \/ outcome = "ManifestFormatError"

\* C6: when acquisition fails in transcribe (non-200 response, or a failure
\* of the YouTube download), the error is reported on the error channel and
\* transcribe returns normally: nothing is raised out of transcribe.
C6_AcquisitionErrorReported ==
    (\E i \in 1..Len(events) :
        events[i].op \in AcquisitionOps /\ events[i].status \notin {"ok", "200"}) =>
        /\ outcome = "returned"
        /\ echoed # <<>> /\ echoed[Len(echoed)].err

\* C7: in download_model with a known model id, a failure of either external
\* stage ends in a failure message on the error channel and a normal return;
\* no failure escapes as an unhandled error or passes unreported, and the
\* success message of the download stage stays reported.
C7_StageFailureReported ==
    (command = "download_model" /\ pc = "done"
        /\ \E i \in 1..Len(events) : events[i].op = "exec" /\ events[i].status # "0") =>
        /\ outcome = "returned"
        /\ echoed # <<>> /\ echoed[Len(echoed)].err
        /\ Len(events) = 2 =>
              echoed[1] = Echo("Successfully downloaded, preparing CoreML model...", model, FALSE)

\* C8: in download_model with a known model id, the download script is run
\* first with the model id as its argument, and the preparation script is
\* run if and only if the download script exited 0, as the command
\* <preparation script> <model id>.
C8_PreparationCommand ==
    (command = "download_model" /\ pc = "done" /\ KnownModel) =>
        /\ Len(events) >= 1
        /\ events[1].args = <<download_script, model>>
        /\ (events[1].status = "0") <=> (Len(events) = 2)
        /\ Len(events) = 2 => events[2].args = <<coreml_script, model>>

\* C9: in every transcribe run the steps happen in one order and at most
\* once each: mode determined, model validated, audio acquired, engine
\* invoked, transcript written, path reported; the engine is invoked only
\* after acquisition succeeded and the path is reported only after the
\* file was written.
C9_StepOrder ==
    command = "transcribe" =>
        /\ Validated => mode # "not determined"
        /\ events # <<>> => KnownModel
        /\ \A i, j \in 1..Len(events) : i < j => Rank(events[i].op) < Rank(events[j].op)
        /\ EngineInvoked =>
            \/ mode = "file" /\ audio_path = file_path.val /\ events[1].op = "shell"
            \/ /\ mode # "file"
               /\ events[1].op \in AcquisitionOps
               /\ events[1].status \in {"ok", "200"}
               /\ \E f \in files : f.path = audio_path
        /\ OpsOf({"open.write"}) # <<>> => EngineInvoked
        /\ Len(SavedEchoes) <= 1
        /\ SavedEchoes # <<>> =>
            /\ OpsOf({"open.write"}) # <<>>
            /\ \E f \in files : f.path = SavedEchoes[1].arg
            /\ pc = "done"

C9_Witness ==
    /\ command = "transcribe" /\ mode = "url" /\ pc = "done" /\ outcome = "returned"
    /\ Len(events) = 3 /\ SavedEchoes # <<>>

====
